---- MODULE Spec2Model ----
(***************************************************************************)
(* A model of the SQL agents of openrouter_langchain: the read-only query  *)
(* guard and result formatting of pydantic_sql_agent.py, the session       *)
(* scope around every query, the interactive loops of both agent scripts,  *)
(* the schema text handed to the system prompt, and the PostgreSQL role    *)
(* the agents connect as.                                                  *)
(*                                                                         *)
(* Python strings that the code inspects are sequences of one-character    *)
(* strings, so strip, upper, lower, startswith, join and the substring     *)
(* test are computed character by character.                               *)
(***************************************************************************)
EXTENDS Integers, Sequences, FiniteSets, TLC

\* ------------------------------------------------------------------ bounds

\* Result sets hold 0..SmallRows rows, or within RowSlack of the display cap.
SmallRows == 2
RowSlack == 2
\* Budgets tried for the schema text run from 0 to MaxBudget tokens.
MaxBudget == 40

\* --------------------------------------------------------- Python strings

Whitespace == {" ", "\t", "\n", "\r"}

Lowers == <<"a","b","c","d","e","f","g","h","i","j","k","l","m",
            "n","o","p","q","r","s","t","u","v","w","x","y","z">>
Uppers == <<"A","B","C","D","E","F","G","H","I","J","K","L","M",
            "N","O","P","Q","R","S","T","U","V","W","X","Y","Z">>
LowerSet == {Lowers[i] : i \in 1..26}
UpperSet == {Uppers[i] : i \in 1..26}

UpperChar(c) ==
    IF c \in LowerSet THEN Uppers[CHOOSE i \in 1..26 : Lowers[i] = c] ELSE c
LowerChar(c) ==
    IF c \in UpperSet THEN Lowers[CHOOSE i \in 1..26 : Uppers[i] = c] ELSE c

\* str.upper() and str.lower()
Upper(s) == [i \in 1..Len(s) |-> UpperChar(s[i])]
Lower(s) == [i \in 1..Len(s) |-> LowerChar(s[i])]

RECURSIVE LStrip(_)
LStrip(s) == IF s # <<>> /\ Head(s) \in Whitespace THEN LStrip(Tail(s)) ELSE s
RECURSIVE RStrip(_)
RStrip(s) ==
    IF s # <<>> /\ s[Len(s)] \in Whitespace
    THEN RStrip(SubSeq(s, 1, Len(s) - 1)) ELSE s
\* str.strip()
Strip(s) == RStrip(LStrip(s))

\* str.startswith(p)
StartsWith(s, p) == Len(s) >= Len(p) /\ SubSeq(s, 1, Len(p)) = p
\* p in s
Contains(s, p) ==
    \E i \in 0..(Len(s) - Len(p)) : SubSeq(s, i + 1, i + Len(p)) = p

\* sep.join(parts), halving the list
RECURSIVE Join(_, _)
Join(sep, parts) ==
    IF parts = <<>> THEN <<>>
    ELSE IF Len(parts) = 1 THEN parts[1]
    ELSE LET h == Len(parts) \div 2
         IN  Join(sep, SubSeq(parts, 1, h)) \o sep
                 \o Join(sep, SubSeq(parts, h + 1, Len(parts)))

\* c * n
Repeat(c, n) == [i \in 1..n |-> c]

Digits == <<"0","1","2","3","4","5","6","7","8","9">>
\* str(n) of a non-negative int
RECURSIVE IntToStr(_)
IntToStr(n) ==
    IF n < 10 THEN <<Digits[n + 1]>>
    ELSE IntToStr(n \div 10) \o <<Digits[(n % 10) + 1]>>

\* text.split("\n"), cutting at the line break nearest the middle
Abs(x) == IF x < 0 THEN -x ELSE x
RECURSIVE SplitLines(_)
SplitLines(text) ==
    LET B == {i \in 1..Len(text) : text[i] = "\n"}
        mid == (Len(text) + 1) \div 2
    IN  IF B = {} THEN <<text>>
        ELSE LET k == CHOOSE p \in B :
                          \A x \in B : Abs(x - mid) > Abs(p - mid)
                                          \/ (Abs(x - mid) = Abs(p - mid) /\ x >= p)
             IN  SplitLines(SubSeq(text, 1, k - 1))
                     \o SplitLines(SubSeq(text, k + 1, Len(text)))

Count(seq, e) == Cardinality({i \in 1..Len(seq) : seq[i] = e})

\* --------------------------------------------------------------- literals

SELECT == <<"S","E","L","E","C","T">>
OnlySelectMsg == <<"O","n","l","y"," ","S","E","L","E","C","T"," ","q","u","e","r","i","e","s"," ","a","r","e"," ","a","l","l","o","w","e","d"," ","f","o","r"," ","s","e","c","u","r","i","t","y"," ","r","e","a","s","o","n","s",".">>
FailedPrefix == <<"Q","u","e","r","y"," ","e","x","e","c","u","t","i","o","n"," ","f","a","i","l","e","d",":"," ">>
NoRowsMsg == <<"Q","u","e","r","y"," ","e","x","e","c","u","t","e","d"," ","s","u","c","c","e","s","s","f","u","l","l","y","."," ","N","o"," ","r","o","w","s"," ","r","e","t","u","r","n","e","d",".">>
ExecutedMsg == <<"Q","u","e","r","y"," ","e","x","e","c","u","t","e","d"," ","s","u","c","c","e","s","s","f","u","l","l","y",".">>
ColumnSep == <<" ","|"," ">>
NewLine == <<"\n">>
\* the 100 of rows[:100], len(rows) > 100 and len(rows) - 100
RowLimit == 100

MoreRowsLine(k) == <<"\n",".",".","."," ","(">> \o IntToStr(k) \o <<" ","m","o","r","e"," ","r","o","w","s",")">>

\* ------------------------------------------------------------ PostgreSQL

TableNames == {"customers", "products", "orders", "order_items"}
TableText(t) ==
    CASE t = "customers" -> <<"C","U","S","T","O","M","E","R","S">>
      [] t = "products" -> <<"P","R","O","D","U","C","T","S">>
      [] t = "orders" -> <<"O","R","D","E","R","S">>
      [] t = "order_items" -> <<"O","R","D","E","R","_","I","T","E","M","S">>

WriteKinds == {"INSERT", "UPDATE", "DELETE", "DROP"}
WriteText(k) ==
    CASE k = "INSERT" -> <<"I","N","S","E","R","T"," ","I","N","T","O"," ">>
      [] k = "UPDATE" -> <<"U","P","D","A","T","E"," ">>
      [] k = "DELETE" -> <<"D","E","L","E","T","E"," ","F","R","O","M"," ">>
      [] k = "DROP" -> <<"D","R","O","P"," ","T","A","B","L","E"," ">>

\* What the role provisioned by create_readonly_user may do: CONNECT on the
\* database, USAGE on the schema, SELECT on every table of the schema.
\* (GrantAll: the grants had they covered writing too; GrantCreate: had
\* they let the role create tables in the schema)
GrantCreate(tbls) ==
    {<<"CONNECT", "ecommerce">>, <<"USAGE", "public">>, <<"CREATE", "public">>}
        \cup {<<"SELECT", t>> : t \in tbls}
GrantAll(tbls) ==
    {<<"CONNECT", "ecommerce">>, <<"USAGE", "public">>}
        \cup {<<p, t>> : p \in {"SELECT", "INSERT", "UPDATE", "DELETE"}, t \in tbls}
ReadonlyGrants(tbls) ==
    {<<"CONNECT", "ecommerce">>, <<"USAGE", "public">>}
        \cup {<<"SELECT", t>> : t \in tbls}

\* The statement's text without a leading "--" comment line.
RECURSIVE DropComment(_)
DropComment(s) ==
    LET b == LStrip(s)
    IN  IF ~StartsWith(b, <<"-", "-">>) THEN b
        ELSE IF \A i \in 1..Len(b) : b[i] # "\n" THEN <<>>
        ELSE LET k == CHOOSE i \in 1..Len(b) :
                          b[i] = "\n" /\ \A j \in 1..(i - 1) : b[j] # "\n"
             IN  DropComment(SubSeq(b, k + 1, Len(b)))

\* The first word of a statement: up to white space, ";" or "(".
RECURSIVE FirstWord(_)
FirstWord(s) ==
    IF s = <<>> \/ Head(s) \in Whitespace \cup {";", "("} THEN <<>>
    ELSE <<Head(s)>> \o FirstWord(Tail(s))

\* The last statement of a ";"-separated string.
RECURSIVE LastStatement(_)
LastStatement(s) ==
    LET b == Strip(s)
    IN  IF \A i \in 1..Len(b) : b[i] # ";" THEN b
        ELSE LET k == CHOOSE i \in 1..Len(b) :
                          b[i] = ";" /\ \A j \in (i + 1)..Len(b) : b[j] # ";"
             IN  IF Strip(SubSeq(b, k + 1, Len(b))) = <<>>
                 THEN LastStatement(SubSeq(b, 1, k - 1))
                 ELSE Strip(SubSeq(b, k + 1, Len(b)))

RowCommands == {<<"S","E","L","E","C","T">>, <<"W","I","T","H">>}
Commands == RowCommands \cup {<<"I","N","S","E","R","T">>, <<"U","P","D","A","T","E">>, <<"D","E","L","E","T","E">>, <<"D","R","O","P">>, <<"S","E","T">>}

\* The server parses the statement: a known command word, or a parenthesis.
WellFormed(q) ==
    LET b == Upper(DropComment(q))
    IN  b # <<>> /\ (Head(b) = "(" \/ FirstWord(b) \in Commands)

\* The result of the last statement is a row set (it is a query).
ReturnsRows(q) ==
    LET b == Upper(DropComment(LastStatement(q)))
    IN  b # <<>> /\ (Head(b) = "(" \/ FirstWord(b) \in RowCommands)

\* The privileges the statement needs on the tables it names.
Writes(q) ==
    {w \in WriteKinds \X TableNames :
        Contains(Upper(q), WriteText(w[1]) \o TableText(w[2]))}
Reads(q) ==
    {t \in TableNames :
        /\ Contains(Upper(q), <<"F","R","O","M"," ">> \o TableText(t))
        /\ <<"DELETE", t>> \notin Writes(q)}
Required(q) == Writes(q) \cup {<<"SELECT", t>> : t \in Reads(q)}

\* ------------------------------------------------- the server's response

\* str(e) of the exception the driver raises
ExcText(e) ==
    CASE e = "OperationalError" -> <<"c","o","n","n","e","c","t","i","o","n"," ","r","e","f","u","s","e","d">>
      [] e = "ProgrammingError" -> <<"s","y","n","t","a","x"," ","e","r","r","o","r">>
      [] e = "InsufficientPrivilege" -> <<"p","e","r","m","i","s","s","i","o","n"," ","d","e","n","i","e","d">>

\* The sizes of the result sets the server returns.
RowCounts == (0..SmallRows) \cup ((RowLimit - RowSlack)..(RowLimit + RowSlack))
ColumnSets == {<<<<"i","d">>>>, <<<<"i","d">>, <<"n","a","m","e">>>>}

\* Row i of a result set: its number, then NULL or a text.
Cell(i, j) ==
    IF j = 1 THEN [t |-> "int", n |-> i, s |-> <<>>]
    ELSE IF i % 2 = 0 THEN [t |-> "null", n |-> 0, s |-> <<>>]
    ELSE [t |-> "str", n |-> 0, s |-> <<"x">>]
FetchAll(n, cols) == [i \in 1..n |-> [j \in 1..Len(cols) |-> Cell(i, j)]]

\* str(val)
PyStr(val) ==
    CASE val.t = "int" -> IntToStr(val.n)
      [] val.t = "null" -> <<"N","o","n","e">>
      [] val.t = "str" -> val.s

NoColumns == <<>>
Raise(e) == [kind |-> "raise", exc |-> e, columns |-> NoColumns, rows |-> <<>>]
RowSet(cols, n) == [kind |-> "rows", exc |-> "", columns |-> cols, rows |-> FetchAll(n, cols)]
NoRowSet == [kind |-> "norows", exc |-> "", columns |-> NoColumns, rows |-> <<>>]

\* What session.execute(text(query)) can do with q for a role holding privs:
\* the connection fails, the server rejects the text, the role lacks a
\* privilege, or the statement runs and yields a row set or none.
DbOutcomes(q, privs) ==
    {Raise("OperationalError")} \cup
    (IF ~WellFormed(q) THEN {Raise("ProgrammingError")}
     ELSE IF ~(Required(q) \subseteq privs) THEN {Raise("InsufficientPrivilege")}
     ELSE IF ReturnsRows(q) THEN {RowSet(c, n) : c \in ColumnSets, n \in RowCounts}
     ELSE {NoRowSet})

\* The tables after a transaction that ran the writes ws has committed.
ApplyWrites(tb, ws) ==
    [t \in TableNames |->
        [n |-> IF <<"DELETE", t>> \in ws THEN 0
               ELSE tb[t].n + (IF <<"INSERT", t>> \in ws THEN 1 ELSE 0),
         rev |-> tb[t].rev + (IF <<"UPDATE", t>> \in ws THEN 1 ELSE 0)]]

\* ----------------------------------------- DatabaseContext.execute_query

Min(a, b) == IF a <= b THEN a ELSE b

FormatRow(row) == Join(ColumnSep, [j \in 1..Len(row) |-> PyStr(row[j])])

\* rows[:100]
ShownRows(rows) == SubSeq(rows, 1, Min(Len(rows), RowLimit))

\* if len(rows) > 100: the line counting the rows left out
\* (MoreRowsAtLimit: the comparison taken as >=)
MoreRowsAtLimit(rows) ==
    IF Len(rows) >= RowLimit THEN <<MoreRowsLine(Len(rows) - RowLimit)>> ELSE <<>>
MoreRows(rows) ==
    IF Len(rows) > RowLimit THEN <<MoreRowsLine(Len(rows) - RowLimit)>> ELSE <<>>

\* the header, and the dashes under it
\* (HeaderOnly: the list without the dashes)
HeaderOnly(columns) == <<Join(ColumnSep, columns)>>
HeaderLines(columns) ==
    LET header == Join(ColumnSep, columns)
    IN  <<header, Repeat("-", Len(header))>>

\* the output list of execute_query for a non-empty row set
OutputLines(columns, rows) ==
    HeaderLines(columns)
        \o [i \in 1..Len(ShownRows(rows)) |-> FormatRow(ShownRows(rows)[i])]
        \o MoreRows(rows)

\* if not rows: the message instead of a table
\* (EmptyAsExecuted: the message of a statement that returns no row set)
EmptyAsExecuted(out) == ExecutedMsg
EmptyResult(out) == NoRowsMsg

\* the body of the with block: what it returns, or the exception it raises
QueryBody(out) ==
    IF out.kind = "raise"
    THEN [raised |-> TRUE, exc |-> out.exc, value |-> <<>>, events |-> <<"execute">>]
    ELSE IF out.kind = "rows"
    THEN [raised |-> FALSE, exc |-> "",
          value |-> IF out.rows = <<>> THEN EmptyResult(out)
                    ELSE Join(NewLine, OutputLines(out.columns, out.rows)),
          events |-> <<"execute", "fetchall">>]
    ELSE [raised |-> FALSE, exc |-> "", value |-> ExecutedMsg, events |-> <<"execute">>]

\* get_session around a body: commit, or rollback and re-raise; close always
\* (SessionScopeNoFinally: close reached on the successful path only)
SessionScopeNoFinally(body, commitFails) ==
    [raised |-> body.raised \/ commitFails,
     exc |-> IF body.raised THEN body.exc
             ELSE IF commitFails THEN "OperationalError" ELSE "",
     value |-> IF commitFails THEN <<>> ELSE body.value,
     events |-> <<"open">> \o body.events
                 \o (IF body.raised THEN <<"rollback">>
                     ELSE IF commitFails THEN <<"commit", "rollback">>
                     ELSE <<"commit", "close">>)]
SessionScope(body, commitFails) ==
    [raised |-> body.raised \/ commitFails,
     exc |-> IF body.raised THEN body.exc
             ELSE IF commitFails THEN "OperationalError" ELSE "",
     value |-> IF commitFails THEN <<>> ELSE body.value,
     events |-> <<"open">> \o body.events
                 \o (IF body.raised THEN <<"rollback">>
                     ELSE IF commitFails THEN <<"commit", "rollback">>
                     ELSE <<"commit">>)
                 \o <<"close">>]

\* execute_query(query) when the server answers out
ExecuteQuery(query, out, commitFails) ==
    LET r == SessionScope(QueryBody(out), commitFails)
    IN  [raised |-> r.raised, exc |-> r.exc, value |-> r.value,
         events |-> r.events, sent |-> <<query>>]

\* ------------------------------------------------------ execute_sql_query

\* sql_query.strip().upper().startswith("SELECT")
\* (GuardContains: "SELECT" anywhere; GuardNoSemicolon: one statement only)
GuardContains(q) == Contains(Upper(Strip(q)), SELECT)
GuardNoSemicolon(q) == StartsWith(Upper(Strip(q)), SELECT) /\ ~Contains(q, <<";">>)
GuardAccepts(q) == StartsWith(Upper(Strip(q)), SELECT)

\* the text handed to ctx.deps.execute_query
\* (ForwardedStripped: the stripped copy instead)
ForwardedStripped(q) == Strip(q)
Forwarded(q) == q

\* except Exception
\* (CatchesSqlOnly: a handler for statement errors only)
CatchesSqlOnly(e) == e \in {"ProgrammingError", "InsufficientPrivilege"}
Catches(e) == e \in {"OperationalError", "ProgrammingError", "InsufficientPrivilege"}

\* (QueryResultNoDetails: the result without the submitted text)
QueryResultNoDetails(type, content, details) ==
    [type |-> type, content |-> content, details |-> <<>>]
QueryResult(type, content, details) ==
    [type |-> type, content |-> content, details |-> details]
NoResult == QueryResult("none", <<>>, <<>>)

\* One call of the tool: its result or the exception that leaves it, the
\* session events, and the texts handed to the server.
ExecuteSqlQuery(q, out, commitFails) ==
    IF ~GuardAccepts(q)
    THEN [result |-> QueryResult("error", OnlySelectMsg, q), raised |-> FALSE,
          events |-> <<>>, sent |-> <<>>, committed |-> FALSE]
    ELSE LET r == ExecuteQuery(Forwarded(q), out, commitFails)
         IN  IF ~r.raised
             THEN [result |-> QueryResult("query", r.value, q), raised |-> FALSE,
                   events |-> r.events, sent |-> r.sent, committed |-> TRUE]
             ELSE IF Catches(r.exc)
             THEN [result |-> QueryResult("error", FailedPrefix \o ExcText(r.exc), q),
                   raised |-> FALSE, events |-> r.events, sent |-> r.sent,
                   committed |-> FALSE]
             ELSE [result |-> NoResult, raised |-> TRUE, events |-> r.events,
                   sent |-> r.sent, committed |-> FALSE]

\* ------------------------------------------------- the schema for the prompt

\* What the inspector reports for a table: its columns, its primary key and
\* its foreign keys.
Column(name, type, nullable, default) ==
    [name |-> name, type |-> type, nullable |-> nullable, default |-> default]
ForeignKey(cols, table, refs) ==
    [constrained_columns |-> cols, referred_table |-> table, referred_columns |-> refs]

Customers ==
    [name |-> "customers",
     columns |-> <<Column("customer_id", "INTEGER", FALSE, "nextval('customers_customer_id_seq'::regclass)"),
                   Column("email", "VARCHAR(255)", FALSE, "")>>,
     pk |-> <<"customer_id">>, fks |-> <<>>]
Orders ==
    [name |-> "orders",
     columns |-> <<Column("order_id", "INTEGER", FALSE, "nextval('orders_order_id_seq'::regclass)"),
                   Column("customer_id", "INTEGER", FALSE, ""),
                   Column("status", "VARCHAR(50)", TRUE, "'pending'::character varying")>>,
     pk |-> <<"order_id">>,
     fks |-> <<ForeignKey(<<"customer_id">>, "customers", <<"customer_id">>)>>]
\* a table with a composite key, and one with no key and no column
Pairs ==
    [name |-> "pairs",
     columns |-> <<Column("a", "INTEGER", FALSE, ""), Column("b", "INTEGER", FALSE, "")>>,
     pk |-> <<"a", "b">>, fks |-> <<>>]
Bare == [name |-> "bare", columns |-> <<>>, pk |-> <<>>, fks |-> <<>>]

Schemas ==
    {<<>>, <<Bare>>, <<Customers>>, <<Pairs>>, <<Customers, Orders>>,
     <<Customers, Orders, Pairs>>}

\* A text is the sequence of the pieces it was formatted from; the line
\* break that join puts between two lines is a piece too.
Text(lines) == Join(<<"\n">>, lines)

\* ', '.join(names)
Names(names) == Join(<<", ">>, [i \in 1..Len(names) |-> <<names[i]>>])

\* The fixed tokenizer, as far as the code uses it: the tokens of a text, of
\* which it takes the number.  Every piece is one token.
Encode(text) == text

\* _load_full_schema: the lines of one table
FullColumn(col) ==
    <<"  - ", col.name, ": ", col.type, " ", IF col.nullable THEN "NULL" ELSE "NOT NULL">>
        \o (IF col.default # "" THEN <<" DEFAULT ", col.default>> ELSE <<>>)
FullForeignKey(fk) ==
    <<"  FOREIGN KEY: ">> \o Names(fk.constrained_columns) \o <<" -> ", fk.referred_table, "(">>
        \o Names(fk.referred_columns) \o <<")">>
FullTable(t) ==
    <<<<"\nTable: ", t.name>>>>
        \o [i \in 1..Len(t.columns) |-> FullColumn(t.columns[i])]
        \o (IF t.pk # <<>> THEN <<<<"  PRIMARY KEY: ">> \o Names(t.pk)>> ELSE <<>>)
        \o [i \in 1..Len(t.fks) |-> FullForeignKey(t.fks[i])]

\* get_schema_for_prompt, truncating: the lines of one table
ShortColumn(col) == <<"  - ", col.name, ": ", col.type>>
ShortForeignKey(fk) ==
    <<"  FK: ">> \o Names(fk.constrained_columns) \o <<" -> ", fk.referred_table>>
\* (ShortTableNoKey: the shorter form without its primary-key line)
ShortTableNoKey(t) ==
    <<<<"\nTable: ", t.name>>>>
        \o [i \in 1..Len(t.columns) |-> ShortColumn(t.columns[i])]
        \o [i \in 1..Len(t.fks) |-> ShortForeignKey(t.fks[i])]
ShortTable(t) ==
    <<<<"\nTable: ", t.name>>>>
        \o [i \in 1..Len(t.columns) |-> ShortColumn(t.columns[i])]
        \o (IF t.pk # <<>> THEN <<<<"  PK: ">> \o Names(t.pk)>> ELSE <<>>)
        \o [i \in 1..Len(t.fks) |-> ShortForeignKey(t.fks[i])]

RECURSIVE Flatten(_)
Flatten(lists) == IF lists = <<>> THEN <<>> ELSE Head(lists) \o Flatten(Tail(lists))

\* _load_full_schema
LoadFullSchema(schema) ==
    Text(Flatten([i \in 1..Len(schema) |-> FullTable(schema[i])]))
\* the shorter form, regenerated from the tables the inspector reports now
TruncatedSchema(schema) ==
    Text(Flatten([i \in 1..Len(schema) |-> ShortTable(schema[i])]))

\* if len(tokens) <= max_tokens
\* (FitsAlways: the full text whatever its size; FitsStrictly: the full
\* text only below the budget)
FitsAlways(tokens, max_tokens) == TRUE
FitsStrictly(tokens, max_tokens) == Len(tokens) < max_tokens
FitsBudget(tokens, max_tokens) == Len(tokens) <= max_tokens

\* get_schema_for_prompt(max_tokens) of a context that loaded full, on a
\* database whose schema is now live
GetSchemaForPrompt(full, live, max_tokens) ==
    IF FitsBudget(Encode(full), max_tokens) THEN full ELSE TruncatedSchema(live)

\* the return statement get_schema_for_prompt leaves by
ReturnSite(full, max_tokens) ==
    IF FitsBudget(Encode(full), max_tokens) THEN "full_schema" ELSE "schema_parts"

\* one call of get_schema_for_prompt: its budget, the return statement it
\* left by, the tables its inspector reported (none when it returned the
\* preloaded text) and the text it returned
SchemaCall(full, live, max_tokens) ==
    [called |-> TRUE, max_tokens |-> max_tokens,
     returned |-> ReturnSite(full, max_tokens),
     inspected |-> IF ReturnSite(full, max_tokens) = "schema_parts" THEN live ELSE <<>>,
     text |-> GetSchemaForPrompt(full, live, max_tokens)]
NoSchemaCall ==
    [called |-> FALSE, max_tokens |-> 0, returned |-> "", inspected |-> <<>>,
     text |-> <<>>]

\* schema_for_prompt = db_context.get_schema_for_prompt(max_tokens=2000)
PromptBudget == 2000

\* ------------------------------------------------------------ the inputs

\* SQL texts the model may hand to the tool.
Bodies ==
    {<<"S","E","L","E","C","T"," ","1">>,
     <<"s","e","l","e","c","t"," ","*"," ","f","r","o","m"," ","o","r","d","e","r","s">>,
     <<"S","e","L","e","C","t"," ","i","d"," ","F","R","O","M"," ","c","u","s","t","o","m","e","r","s">>,
     <<"I","N","S","E","R","T"," ","I","N","T","O"," ","c","u","s","t","o","m","e","r","s"," ","V","A","L","U","E","S"," ","(","1",")">>,
     <<"U","P","D","A","T","E"," ","o","r","d","e","r","s"," ","S","E","T"," ","s","t","a","t","u","s"," ","="," ","1">>,
     <<"D","E","L","E","T","E"," ","F","R","O","M"," ","c","u","s","t","o","m","e","r","s">>,
     <<"D","R","O","P"," ","T","A","B","L","E"," ","c","u","s","t","o","m","e","r","s">>,
     <<"W","I","T","H"," ","t"," ","A","S"," ","(","S","E","L","E","C","T"," ","1",")"," ","S","E","L","E","C","T"," ","*"," ","F","R","O","M"," ","t">>,
     <<"(","S","E","L","E","C","T"," ","1",")">>,
     <<"-","-"," ","c","\n","S","E","L","E","C","T"," ","1">>,
     <<"S","E","L","E","C","T"," ","1",";"," ","D","E","L","E","T","E"," ","F","R","O","M"," ","o","r","d","e","r","s">>,
     <<"s","e","l","e","c","t"," ","1",";"," ","u","p","d","a","t","e"," ","p","r","o","d","u","c","t","s"," ","s","e","t"," ","p","r","i","c","e"," ","="," ","0">>,
     <<"S","E","L","E","C","T"," ","1",";"," ","I","N","S","E","R","T"," ","I","N","T","O"," ","o","r","d","e","r","_","i","t","e","m","s"," ","V","A","L","U","E","S"," ","(","1",")">>,
     <<"S","E","L","E","C","T"," ","1",";"," ","D","R","O","P"," ","T","A","B","L","E"," ","o","r","d","e","r","s">>,
     <<"S","E","L","E","C","T"," ","1",";"," ","S","E","T"," ","x"," ","T","O"," ","1">>,
     <<"S","E","L","E","C","T","X">>,
     <<"S","E","L","E","C">>,
     <<>>}
LeftPads == {<<>>, <<" ">>, <<"\n", "\t">>}
RightPads == {<<>>, <<" ">>}
Queries == {l \o b \o r : l \in LeftPads, b \in Bodies, r \in RightPads}

\* Lines typed at the prompt.
Lines ==
    {<<"q","u","i","t">>, <<"e","x","i","t">>, <<"q">>, <<" ","Q","u","i","t"," ">>, <<"E","X","I","T">>, <<>>, <<" "," ">>,
     <<"q","u","i","t"," ","n","o","w">>, <<" ","H","o","w"," ","m","a","n","y","?"," ">>}
QuitWords == {<<"q","u","i","t">>, <<"e","x","i","t">>, <<"q">>}

MIN_CUSTOMERS == 50
MIN_PRODUCTS == 30
MIN_ORDERS == 100
MIN_ORDER_ITEMS == 150
MinRows(t) ==
    CASE t = "customers" -> MIN_CUSTOMERS
      [] t = "products" -> MIN_PRODUCTS
      [] t = "orders" -> MIN_ORDERS
      [] t = "order_items" -> MIN_ORDER_ITEMS
\* len(customers_data), len(products_data), len(orders_data),
\* len(order_items_data): the rows setup inserts into an empty table
SeededRows(t) ==
    CASE t = "customers" -> 50
      [] t = "products" -> 30
      [] t = "orders" -> 100
      [] t = "order_items" -> 204

\* ------------------------------------------- the server the scripts act on

\* a server with no ecommerce database and no read-only role
Fresh ==
    [db |-> FALSE, tables |-> {}, rows |-> [t \in TableNames |-> 0], emails |-> 0,
     role |-> FALSE, grants |-> {}, defaults |-> FALSE, sessions |-> 0]

\* CREATE DATABASE ecommerce, unless pg_database lists it
CreateDatabaseOn(s) == [s EXCEPT !.db = TRUE]

\* four CREATE TABLE IF NOT EXISTS, committed together
CreateTablesOn(s) == [s EXCEPT !.tables = TableNames]

\* if count < MIN: the threshold test of populate_data
\* (BelowOrAt: a table at its threshold is seeded again)
BelowOrAt(count, min) == count <= min
Below(count, min) == count < min

\* the tables populate_data inserts into, given the counts it read
\* (SeedingTogether: every table seeded as soon as one is short)
SeedingTogether(counts) ==
    IF \E t \in TableNames : Below(counts[t], MinRows(t)) THEN TableNames ELSE {}
Seeding(counts) == {t \in TableNames : Below(counts[t], MinRows(t))}

\* The rows one insert adds: every seed row, except that a customer whose
\* email is already there is skipped (ON CONFLICT (email) DO NOTHING).
Inserted(s, t) ==
    IF t = "customers" THEN SeededRows(t) - s.emails ELSE SeededRows(t)

\* the seed rows of the tables tbls, inserted
InsertInto(s, tbls) ==
    [s EXCEPT !.rows = [t \in TableNames |->
                           IF t \in tbls THEN s.rows[t] + Inserted(s, t)
                           ELSE s.rows[t]],
              !.emails = IF "customers" \in tbls THEN SeededRows("customers") ELSE @]

\* the inserts of populate_data, committed together by conn.commit()
PopulateOn(s, counts) == InsertInto(s, Seeding(counts))

\* except: conn.rollback(), after the inserts into done were executed
\* (CommittedEach: every insert committed as it is made)
CommittedEach(s, done) == InsertInto(s, done)
RolledBack(s, done) == s

\* CREATE USER unless pg_roles lists it, then the four grants, committed
\* together
\* the statements create_readonly_user executes, in order
ReadonlyStatements(exists) ==
    <<"SELECT pg_roles">> \o (IF exists THEN <<>> ELSE <<"CREATE USER">>)
        \o <<"GRANT CONNECT", "GRANT USAGE", "GRANT SELECT",
             "ALTER DEFAULT PRIVILEGES", "COMMIT">>

CreateReadonlyUserOn(s) ==
    [s EXCEPT !.role = TRUE, !.grants = @ \cup ReadonlyGrants(s.tables),
              !.defaults = TRUE]

\* DROP DATABASE: the tables, their rows and every privilege granted on the
\* database or inside it go with it
DropDatabaseOn(s) ==
    [s EXCEPT !.db = FALSE, !.tables = {}, !.rows = [t \in TableNames |-> 0],
              !.emails = 0, !.grants = {}, !.defaults = FALSE, !.sessions = 0]

\* DROP USER
\* (KeepUser: the role left in place)
KeepUser(s) == s
DropUserOn(s) == [s EXCEPT !.role = FALSE]

\* if exists: the test before DROP DATABASE and DROP USER
\* (DropAlways: the drop issued whether or not the object exists)
DropAlways(exists) == TRUE
DropIfExists(exists) == exists

\* the server after a setup that started on a fresh one
Provisioned ==
    CreateReadonlyUserOn(
        PopulateOn(CreateTablesOn(CreateDatabaseOn(Fresh)), Fresh.rows))

\* ------------------------------------------------- how the scripts fail

\* The step functions whose except clause prints and returns instead of
\* raising again: get_row_count returns 0, terminate_connections warns.
\* (ReturnsAfterDropFailure: drop_database returning after its failure too)
ReturnsAfterDropFailure == {"get_row_count", "terminate_connections", "drop_database"}
ReturnsAfterFailure == {"get_row_count", "terminate_connections"}
\* (ReraisesAlways: every except clause raises again)
ReraisesAlways(fn) == TRUE
Reraises(fn) == fn \notin ReturnsAfterFailure

\* return 1 from the except clause of setup_database.main, else return 0
\* (SetupExitZero: status 0 whatever happened)
SetupExitZero(raised) == 0
SetupExit(raised) == IF raised THEN 1 ELSE 0

Idle ==
    [script |-> "none", pc |-> "idle", before |-> Fresh, calls |-> <<>>,
     met |-> <<>>, printed |-> <<>>, raised |-> <<>>, open |-> {}, left |-> {},
     status |-> 0, uncaught |-> FALSE, answer |-> <<>>, from |-> "no",
     faults |-> <<>>, inserted |-> {}, issued |-> <<>>]

\* A fault is met while fn runs: the server, the network or a constraint
\* makes one of its statements raise.
Faulted(r, fn, fault) == IF fault THEN [r EXCEPT !.faults = Append(@, fn)] ELSE r

\* A function was called and met no failure.
Returned(r, fn, next) == [r EXCEPT !.calls = Append(@, fn), !.pc = next]

\* A function was called and met a failure: its except clause prints the
\* error, then raises again or returns.
\* (Swallowed: the error is printed and the caller goes on)
Swallowed(r, fn, next) ==
    [r EXCEPT !.calls = Append(@, fn), !.met = Append(@, fn),
              !.printed = Append(@, fn), !.pc = next]
Caught(r, fn, next) ==
    IF Reraises(fn)
    THEN [r EXCEPT !.calls = Append(@, fn), !.met = Append(@, fn),
                   !.printed = Append(@, fn), !.raised = Append(@, fn),
                   !.pc = "raised"]
    ELSE [r EXCEPT !.calls = Append(@, fn), !.met = Append(@, fn),
                   !.printed = Append(@, fn), !.pc = next]

\* except Exception in setup_database.main: print, return 1; the connection
\* to ecommerce, if one is open, is not closed
SetupEnds(r) ==
    IF r.pc = "raised"
    THEN [r EXCEPT !.pc = "done", !.status = SetupExit(TRUE), !.left = r.open]
    ELSE r

\* except Exception in remove_database.main: print, raise; finally close
RemovalEnds(r) ==
    IF r.pc = "raised"
    THEN [r EXCEPT !.pc = "done", !.status = 1, !.uncaught = TRUE, !.open = {}]
    ELSE r

\* answers typed at the confirmation prompt
Answers ==
    {<<"y","e","s">>, <<" ","Y","E","S","\n">>, <<"y">>, <<>>, <<"n","o">>, <<"y","e","s"," ","p","l","e","a","s","e">>}

\* response == "yes", of the stripped, lower-cased answer
\* (ConfirmedByPrefix: any answer that begins with y)
ConfirmedByPrefix(answer) == StartsWith(Lower(Strip(answer)), <<"y">>)
Confirmed(answer) == Lower(Strip(answer)) = <<"y","e","s">>

\* the faults a step can meet: none, or one at a statement or at the commit;
\* populate_data has one at its i-th count, its i-th insert or its commit
StepFaults == {"none", "execute"}
Order == <<"customers", "products", "orders", "order_items">>
PopulateFaults ==
    {[kind |-> "none", at |-> 0], [kind |-> "commit", at |-> 0]}
        \cup {[kind |-> k, at |-> i] : k \in {"count", "insert"}, i \in 1..Len(Order)}

\* Row counts an administrator may leave the tables with between two runs:
\* the tables of one set a row short of their threshold, the others at it.
OtherRows ==
    {[t \in TableNames |-> IF t \in short THEN MinRows(t) - 1 ELSE MinRows(t)] :
        short \in {{}, TableNames} \cup {{t} : t \in TableNames}}

\* -------------------------------------------------------------- the state

VARIABLES
    agentKind,  \* the script that runs: "pydantic" or "langchain"
    pc,         \* "startup", "exit(1)", or the interactive loop: "prompt",
                \* "running" or "done"
    question,   \* the line last read, stripped
    runs,       \* invocations of the agent for that line
    outcome,    \* how the last question ended
    call,       \* the tool call whose result the framework is receiving
    tables,     \* the rows of the four tables
    privs,      \* the privileges of the role the session runs as
    dbSchema,   \* the tables the inspector reports
    full_schema,        \* DatabaseContext.full_schema
    schema_for_prompt,  \* the last call of get_schema_for_prompt
    server,     \* the PostgreSQL server: database, tables, rows, role, grants
    run,        \* the run of setup_database or remove_database in progress
    settled     \* "fresh" or "other": the server is as a successful setup
                \* left it, one that began on a fresh server or not; else "no"

agentVars == <<agentKind, pc, question, runs, outcome, call, tables, privs>>
schemaVars == <<dbSchema, full_schema, schema_for_prompt>>
setupVars == <<server, run, settled>>
vars == <<agentVars, schemaVars, setupVars>>

NoCall ==
    [made |-> FALSE, sql |-> <<>>, kind |-> "", exc |-> "", columns |-> NoColumns,
     fetched |-> 0, commitFails |-> FALSE, result |-> NoResult, raised |-> FALSE,
     events |-> <<>>, sent |-> <<>>, committed |-> FALSE]

\* the agent at its first prompt
AgentInit ==
    /\ pc = "prompt"
    /\ question = <<>>
    /\ runs = 0
    /\ outcome = "none"
    /\ call = NoCall
    /\ tables = [t \in TableNames |-> [n |-> SeededRows(t), rev |-> 0]]
    /\ privs = ReadonlyGrants(TableNames)
    /\ server = Provisioned
    /\ run = Idle
    /\ settled = "fresh"

\* the script is started: nothing is connected or loaded yet
Init ==
    /\ agentKind \in {"pydantic", "langchain"}
    /\ pc = "startup"
    /\ question = <<>>
    /\ runs = 0
    /\ outcome = "none"
    /\ call = NoCall
    /\ tables = [t \in TableNames |-> [n |-> SeededRows(t), rev |-> 0]]
    /\ privs = ReadonlyGrants(TableNames)
    /\ server = Provisioned
    /\ run = Idle
    /\ settled = "fresh"
    /\ dbSchema = <<Customers, Orders>>
    /\ full_schema = <<>>
    /\ schema_for_prompt = NoSchemaCall

\* ------------------------------------------------------------- start-up

\* what can fail in the try block at start-up: the connection made by
\* DatabaseContext(db_uri) or SQLDatabase.from_uri(db_uri), or
\* get_schema_for_prompt, which loads a tokenizer and may inspect again
StartUpFaults == {"none", "connect", "schema"}

\* try: db_context = DatabaseContext(db_uri), then the schema for the
\* prompt; except Exception: print the error, exit(1). The model and the
\* agent are constructed after the try block.
\* (StartUpGoesOn: the error is printed and the script goes on)
StartUpGoesOn(fault) ==
    /\ pc = "startup"
    /\ fault = "schema" => agentKind = "pydantic"
    /\ IF fault = "none"
       THEN /\ pc' = "prompt"
            /\ outcome' = "none"
            /\ full_schema' = LoadFullSchema(dbSchema)
            /\ schema_for_prompt' =
                   SchemaCall(LoadFullSchema(dbSchema), dbSchema, PromptBudget)
       ELSE /\ pc' = "prompt"
            /\ outcome' = "no database"
            /\ full_schema' = IF fault = "schema" THEN LoadFullSchema(dbSchema)
                              ELSE <<>>
            /\ UNCHANGED schema_for_prompt
    /\ UNCHANGED <<agentKind, question, runs, call, tables, privs, dbSchema, setupVars>>
StartUp(fault) ==
    /\ pc = "startup"
    /\ fault = "schema" => agentKind = "pydantic"
    /\ IF fault = "none"
       THEN /\ pc' = "prompt"
            /\ outcome' = "none"
            /\ full_schema' = LoadFullSchema(dbSchema)
            /\ schema_for_prompt' =
                   SchemaCall(LoadFullSchema(dbSchema), dbSchema, PromptBudget)
       ELSE /\ pc' = "exit(1)"
            /\ outcome' = "no database"
            /\ full_schema' = IF fault = "schema" THEN LoadFullSchema(dbSchema)
                              ELSE <<>>
            /\ UNCHANGED schema_for_prompt
    /\ UNCHANGED <<agentKind, question, runs, call, tables, privs, dbSchema, setupVars>>

\* ---------------------------------------------------- the interactive loop

\* question = input("Question: ").strip(), then quit, skip or run the agent
\* (ReadLineExact: the quit words compared without lower-casing)
ReadLineExact(line) ==
    /\ pc = "prompt"
    /\ question' = Strip(line)
    /\ IF Strip(line) \in QuitWords THEN pc' = "done" /\ runs' = 0
       ELSE IF Strip(line) = <<>> THEN pc' = "prompt" /\ runs' = 0
       ELSE pc' = "running" /\ runs' = 1
    /\ outcome' = "none"
    /\ call' = NoCall
    /\ UNCHANGED <<agentKind, tables, privs, schemaVars, setupVars>>
ReadLine(line) ==
    /\ pc = "prompt"
    /\ question' = Strip(line)
    /\ IF Lower(Strip(line)) \in QuitWords THEN pc' = "done" /\ runs' = 0
       ELSE IF Strip(line) = <<>> THEN pc' = "prompt" /\ runs' = 0
       ELSE pc' = "running" /\ runs' = 1
    /\ outcome' = "none"
    /\ call' = NoCall
    /\ UNCHANGED <<agentKind, tables, privs, schemaVars, setupVars>>

\* input() raises at the end of the input: except Exception prints the
\* error, and the while loop goes on
ReadFails ==
    /\ pc = "prompt"
    /\ runs' = 0
    /\ outcome' = "failed"
    /\ call' = NoCall
    /\ UNCHANGED <<agentKind, pc, question, tables, privs, schemaVars, setupVars>>

\* except KeyboardInterrupt: break
\* (InterruptSwallowed: the interrupt is printed and the loop goes on)
InterruptSwallowed ==
    /\ pc \in {"prompt", "running"}
    /\ pc' = "prompt"
    /\ outcome' = "interrupted"
    /\ call' = NoCall
    /\ UNCHANGED <<agentKind, question, runs, tables, privs, schemaVars, setupVars>>
Interrupt ==
    /\ pc \in {"prompt", "running"}
    /\ pc' = "done"
    /\ outcome' = "interrupted"
    /\ call' = NoCall
    /\ UNCHANGED <<agentKind, question, runs, tables, privs, schemaVars, setupVars>>

\* except Exception as e: print, and the while loop goes on
\* (RetryAfterFailure: the agent invoked again on the same line)
RetryAfterFailure(r) == [pc |-> "running", runs |-> r + 1, outcome |-> "failed"]
AfterFailure(r) == [pc |-> "prompt", runs |-> r, outcome |-> "failed"]

\* the result is printed, and the while loop goes on
AfterAnswer(r, type) ==
    [pc |-> "prompt", runs |-> r,
     outcome |-> IF type = "error" THEN "failed" ELSE "answered"]

\* agent.run_sync / agent_executor.invoke returns a result of the given type
AgentReturns(type) ==
    /\ pc = "running" /\ ~call.made
    /\ agentKind = "langchain" => type = "info"
    /\ LET a == AfterAnswer(runs, type)
       IN  pc' = a.pc /\ runs' = a.runs /\ outcome' = a.outcome
    /\ UNCHANGED <<agentKind, question, call, tables, privs, schemaVars, setupVars>>

\* agent.run_sync / agent_executor.invoke raises
AgentRaises ==
    /\ pc = "running" /\ ~call.made
    /\ LET a == AfterFailure(runs)
       IN  pc' = a.pc /\ runs' = a.runs /\ outcome' = a.outcome
    /\ UNCHANGED <<agentKind, question, call, tables, privs, schemaVars, setupVars>>

\* The framework calls execute_sql_query(ctx, q) while the agent runs.
CallTool(q, out, commitFails) ==
    /\ LET r == ExecuteSqlQuery(q, out, commitFails)
           asked == r.sent # <<>>
       IN  /\ call' = [made |-> TRUE, sql |-> q,
                       kind |-> IF asked THEN out.kind ELSE "",
                       exc |-> IF asked THEN out.exc ELSE "",
                       columns |-> IF asked THEN out.columns ELSE NoColumns,
                       fetched |-> IF asked THEN Len(out.rows) ELSE 0,
                       commitFails |-> asked /\ out.kind # "raise" /\ commitFails,
                       result |-> r.result,
                       raised |-> r.raised, events |-> r.events, sent |-> r.sent,
                       committed |-> r.committed]
           /\ tables' = IF r.committed THEN ApplyWrites(tables, Writes(q)) ELSE tables
           /\ IF r.raised
              THEN LET a == AfterFailure(runs)
                   IN  pc' = a.pc /\ runs' = a.runs /\ outcome' = a.outcome
              ELSE UNCHANGED <<pc, runs, outcome>>
    /\ UNCHANGED <<agentKind, question, privs, schemaVars, setupVars>>

\* The framework hands the tool's result to the model.
ToolReturn ==
    /\ call.made
    /\ call' = NoCall
    /\ UNCHANGED <<agentKind, pc, question, runs, outcome, tables, privs, schemaVars, setupVars>>

\* The LangChain toolkit runs q on the same role, with no guard before it.
RunQuery(q, out) ==
    /\ call' = [NoCall EXCEPT !.made = TRUE, !.sql = q, !.kind = out.kind,
                              !.exc = out.exc, !.events = <<"execute">>,
                              !.sent = <<q>>, !.committed = (out.kind # "raise")]
    /\ tables' = IF out.kind # "raise" THEN ApplyWrites(tables, Writes(q)) ELSE tables
    /\ UNCHANGED <<agentKind, pc, question, runs, outcome, privs, schemaVars, setupVars>>

ToolCall ==
    /\ pc = "running" /\ agentKind = "pydantic" /\ ~call.made
    /\ \E q \in Queries : \E out \in DbOutcomes(q, privs) :
          \E commitFails \in BOOLEAN : CallTool(q, out, commitFails)

LangchainQuery ==
    /\ pc = "running" /\ agentKind = "langchain" /\ ~call.made
    /\ \E q \in Queries : \E out \in DbOutcomes(q, privs) : RunQuery(q, out)

Next ==
    \/ \E fault \in StartUpFaults : StartUp(fault)
    \/ \E line \in Lines : ReadLine(line)
    \/ ReadFails
    \/ Interrupt
    \/ \E type \in {"query", "error", "info"} : AgentReturns(type)
    \/ AgentRaises
    \/ ToolCall
    \/ ToolReturn
    \/ LangchainQuery

Spec == Init /\ [][Next]_vars

\* ------------------------------------- get_schema_for_prompt on any schema

SchemaInit ==
    /\ agentKind = "pydantic"
    /\ AgentInit
    /\ dbSchema \in Schemas
    /\ full_schema = LoadFullSchema(dbSchema)
    /\ schema_for_prompt = NoSchemaCall

\* db_context.get_schema_for_prompt(max_tokens)
GetSchema ==
    /\ \E max_tokens \in 0..MaxBudget :
          schema_for_prompt' = SchemaCall(full_schema, dbSchema, max_tokens)
    /\ UNCHANGED <<agentVars, dbSchema, full_schema, setupVars>>

\* The administrator changes the tables while the process runs.
AlterSchema ==
    /\ \E s \in Schemas \ {dbSchema} : dbSchema' = s
    /\ UNCHANGED <<agentVars, full_schema, schema_for_prompt, setupVars>>

SchemaNext == GetSchema \/ AlterSchema

SpecSchema == SchemaInit /\ [][SchemaNext]_vars

\* ------------------------------------------------ setup_database.main

NoRun == run.pc \in {"idle", "done"}

\* what is known of the server once a step has acted on it
Settled(r, s) ==
    IF r.script = "setup" /\ r.pc = "done" /\ r.status = 0 /\ r.raised = <<>>
    THEN (IF r.before = Fresh THEN "fresh" ELSE "other")
    ELSE IF s = server THEN settled ELSE "no"

\* the last statement of main was reached: conn.close(), return 0
SetupReturns(r) ==
    IF r.pc = "return"
    THEN [r EXCEPT !.pc = "done", !.status = SetupExit(FALSE), !.open = {}]
    ELSE r

\* main() begins
StartSetup ==
    /\ NoRun
    /\ run' = [Idle EXCEPT !.script = "setup", !.pc = "create_database",
                           !.before = server, !.from = settled]
    /\ UNCHANGED <<server, settled, agentVars, schemaVars>>

\* [1/4] create_database()
CreateDatabase(fault) ==
    /\ run.script = "setup" /\ run.pc = "create_database"
    /\ LET now == Faulted(run, "create_database", fault # "none")
           r == IF fault = "connect"
                THEN Caught(Caught(now, "connect_to_postgres", "create_database"),
                            "create_database", "connect_to_ecommerce_db")
                ELSE IF fault = "execute"
                THEN Caught(Returned(now, "connect_to_postgres", "create_database"),
                            "create_database", "connect_to_ecommerce_db")
                ELSE Returned(Returned(now, "connect_to_postgres", "create_database"),
                              "create_database", "connect_to_ecommerce_db")
           s == IF fault = "none" /\ ~server.db THEN CreateDatabaseOn(server)
                ELSE server
       IN  /\ run' = SetupEnds(r)
           /\ server' = s
           /\ settled' = Settled(SetupEnds(r), s)
    /\ UNCHANGED <<agentVars, schemaVars>>

\* [2/4] conn = connect_to_ecommerce_db()
ConnectToEcommerceDb(fault) ==
    /\ run.script = "setup" /\ run.pc = "connect_to_ecommerce_db"
    /\ LET now == Faulted(run, "connect_to_ecommerce_db", fault # "none")
           failed == fault # "none" \/ ~server.db
           r == IF failed THEN Caught(now, "connect_to_ecommerce_db", "create_tables")
                ELSE [Returned(now, "connect_to_ecommerce_db", "create_tables")
                         EXCEPT !.open = @ \cup {"ecommerce"}]
       IN  run' = SetupEnds(r)
    /\ UNCHANGED <<server, settled, agentVars, schemaVars>>

\* [2/4] create_tables(conn)
CreateTables(fault) ==
    /\ run.script = "setup" /\ run.pc = "create_tables"
    /\ LET now == Faulted(run, "create_tables", fault # "none")
           failed == fault # "none"
           r == IF failed THEN Caught(now, "create_tables", "populate_data")
                ELSE Returned(now, "create_tables", "populate_data")
           s == IF failed THEN server ELSE CreateTablesOn(server)
       IN  /\ run' = SetupEnds(r)
           /\ server' = s
           /\ settled' = Settled(SetupEnds(r), s)
    /\ UNCHANGED <<agentVars, schemaVars>>

\* get_row_count of every table: a count that fails is read as 0, and after
\* it the transaction is aborted, so the later counts fail as well
ReadCounts(s, fault) ==
    [t \in TableNames |->
        IF fault.kind = "count" /\ \E i \in fault.at..Len(Order) : Order[i] = t
        THEN 0 ELSE s.rows[t]]
RECURSIVE CountsCaught(_, _)
CountsCaught(r, k) ==
    IF k = 0 THEN r
    ELSE CountsCaught(Caught(r, "get_row_count", "populate_data"), k - 1)

\* [3/4] populate_data(conn)
PopulateData(fault) ==
    /\ run.script = "setup" /\ run.pc = "populate_data"
    /\ fault.kind = "insert" => Order[fault.at] \in Seeding(server.rows)
    /\ LET now == Faulted(run, "populate_data", fault.kind # "none")
           counts == ReadCounts(server, fault)
           aborted == fault.kind = "count"
           attempted == {i \in 1..Len(Order) : Order[i] \in Seeding(counts)}
           failAt == IF aborted /\ attempted # {}
                     THEN CHOOSE i \in attempted : \A j \in attempted : i <= j
                     ELSE IF fault.kind = "insert" /\ fault.at \in attempted
                     THEN fault.at ELSE 0
           done == {Order[i] : i \in {j \in attempted : failAt = 0 \/ j < failAt}}
           failed == failAt # 0 \/ fault.kind = "commit"
           r0 == [(IF aborted THEN CountsCaught(now, Len(Order) + 1 - fault.at)
                   ELSE now) EXCEPT !.inserted = done]
           r == IF failed THEN Caught(r0, "populate_data", "create_readonly_user")
                ELSE Returned(r0, "populate_data", "create_readonly_user")
           s == IF failed THEN RolledBack(server, done) ELSE PopulateOn(server, counts)
       IN  /\ run' = SetupEnds(r)
           /\ server' = s
           /\ settled' = Settled(SetupEnds(r), s)
    /\ UNCHANGED <<agentVars, schemaVars>>

\* [4/4] create_readonly_user(conn), then conn.close() and return 0; a
\* fault makes one of its statements, the k-th, raise
CreateReadonlyUser(fault) ==
    /\ run.script = "setup" /\ run.pc = "create_readonly_user"
    /\ LET stmts == ReadonlyStatements(server.role)
           failed == fault # "none"
       IN  \E k \in IF failed THEN 1..Len(stmts) ELSE {Len(stmts)} :
             LET now == [Faulted(run, "create_readonly_user", failed)
                            EXCEPT !.issued = SubSeq(stmts, 1, k)]
                 r == IF failed THEN Caught(now, "create_readonly_user", "return")
                      ELSE Returned(now, "create_readonly_user", "return")
                 s == IF failed THEN server ELSE CreateReadonlyUserOn(server)
             IN  /\ run' = SetupEnds(SetupReturns(r))
                 /\ server' = s
                 /\ settled' = Settled(SetupEnds(SetupReturns(r)), s)
    /\ UNCHANGED <<agentVars, schemaVars>>

\* ----------------------------------------------- remove_database.main

\* the last statement of the try block was reached: finally close, return
RemovalReturns(r) ==
    IF r.pc = "return"
    THEN [r EXCEPT !.pc = "done", !.status = 0, !.open = {}]
    ELSE r

\* if not confirm_removal(): return
ConfirmRemoval(answer) ==
    /\ NoRun
    /\ run' = [Idle EXCEPT !.script = "remove", !.before = server,
                           !.from = settled,
                           !.answer = answer, !.calls = <<"confirm_removal">>,
                           !.pc = IF Confirmed(answer) THEN "connect_to_postgres"
                                  ELSE "done"]
    /\ UNCHANGED <<server, settled, agentVars, schemaVars>>

\* conn = connect_to_postgres()
ConnectToPostgres(fault) ==
    /\ run.script = "remove" /\ run.pc = "connect_to_postgres"
    /\ LET now == Faulted(run, "connect_to_postgres", fault # "none")
           r == IF fault # "none"
                THEN Caught(now, "connect_to_postgres", "terminate_connections")
                ELSE [Returned(now, "connect_to_postgres", "terminate_connections")
                         EXCEPT !.open = @ \cup {"postgres"}]
       IN  run' = RemovalEnds(r)
    /\ UNCHANGED <<server, settled, agentVars, schemaVars>>

\* terminate_connections(conn, database_name): pg_terminate_backend on every
\* other session of the database
TerminateConnections(fault) ==
    /\ run.script = "remove" /\ run.pc = "terminate_connections"
    /\ LET now == Faulted(run, "terminate_connections", fault # "none")
           failed == fault # "none"
           r == IF failed THEN Caught(now, "terminate_connections", "drop_database")
                ELSE Returned(now, "terminate_connections", "drop_database")
           s == IF failed THEN server ELSE [server EXCEPT !.sessions = 0]
       IN  /\ run' = RemovalEnds(r)
           /\ server' = s
           /\ settled' = Settled(RemovalEnds(r), s)
    /\ UNCHANGED <<agentVars, schemaVars>>

\* drop_database(conn, database_name): DROP DATABASE fails on a database
\* that is absent or that other sessions are connected to
DropDatabase(fault) ==
    /\ run.script = "remove" /\ run.pc = "drop_database"
    /\ LET now == Faulted(run, "drop_database", fault # "none")
           issued == DropIfExists(server.db)
           failed == \/ fault # "none"
                     \/ issued /\ (~server.db \/ server.sessions > 0)
           r == IF failed THEN Caught(now, "drop_database", "drop_user")
                ELSE Returned(now, "drop_database", "drop_user")
           s == IF issued /\ ~failed THEN DropDatabaseOn(server) ELSE server
       IN  /\ run' = RemovalEnds(r)
           /\ server' = s
           /\ settled' = Settled(RemovalEnds(r), s)
    /\ UNCHANGED <<agentVars, schemaVars>>

\* drop_user(conn, readonly_user): DROP USER fails on a role that is absent
\* or that still holds privileges; then the finally of main
DropUser(fault) ==
    /\ run.script = "remove" /\ run.pc = "drop_user"
    /\ LET now == Faulted(run, "drop_user", fault # "none")
           issued == DropIfExists(server.role)
           failed == \/ fault # "none"
                     \/ issued /\ (~server.role \/ server.grants # {})
           r == IF failed THEN Caught(now, "drop_user", "return")
                ELSE Returned(now, "drop_user", "return")
           s == IF issued /\ ~failed THEN DropUserOn(server) ELSE server
       IN  /\ run' = RemovalEnds(RemovalReturns(r))
           /\ server' = s
           /\ settled' = Settled(RemovalEnds(RemovalReturns(r)), s)
    /\ UNCHANGED <<agentVars, schemaVars>>

\* ------------------------------------------------- between two runs

\* Another session, such as an agent, connects to the database.
OtherSession ==
    /\ NoRun
    /\ server.db /\ server.sessions = 0
    /\ server' = [server EXCEPT !.sessions = 1]
    /\ run' = Idle
    /\ UNCHANGED settled
    /\ UNCHANGED <<agentVars, schemaVars>>

\* An administrator deletes or inserts rows; e of the customers left are
\* seed customers.
RowsChange ==
    /\ NoRun
    /\ server.tables = TableNames
    /\ \E rows \in OtherRows : \E e \in {0, rows["customers"]} :
          /\ <<rows, e>> # <<server.rows, server.emails>>
          /\ server' = [server EXCEPT !.rows = rows, !.emails = e]
    /\ run' = Idle
    /\ settled' = "no"
    /\ UNCHANGED <<agentVars, schemaVars>>

SetupNext ==
    \/ StartSetup
    \/ \E fault \in StepFaults \cup {"connect"} : CreateDatabase(fault)
    \/ \E fault \in StepFaults : ConnectToEcommerceDb(fault)
    \/ \E fault \in StepFaults : CreateTables(fault)
    \/ \E fault \in PopulateFaults : PopulateData(fault)
    \/ \E fault \in StepFaults : CreateReadonlyUser(fault)
    \/ \E answer \in Answers : ConfirmRemoval(answer)
    \/ \E fault \in StepFaults : ConnectToPostgres(fault)
    \/ \E fault \in StepFaults : TerminateConnections(fault)
    \/ \E fault \in StepFaults : DropDatabase(fault)
    \/ \E fault \in StepFaults : DropUser(fault)
    \/ OtherSession
    \/ RowsChange

SetupInit ==
    /\ agentKind = "pydantic"
    /\ pc = "prompt" /\ question = <<>> /\ runs = 0 /\ outcome = "none"
    /\ call = NoCall
    /\ tables = [t \in TableNames |-> [n |-> SeededRows(t), rev |-> 0]]
    /\ privs = ReadonlyGrants(TableNames)
    /\ dbSchema = <<Customers, Orders>>
    /\ full_schema = LoadFullSchema(dbSchema)
    /\ schema_for_prompt = NoSchemaCall
    /\ server = Fresh
    /\ run = Idle
    /\ settled = "no"

SpecSetup == SetupInit /\ [][SetupNext]_vars

\* ------------------------------------------------------------ properties

Accepted(q) == StartsWith(Upper(Strip(q)), SELECT)
ToolCalled == call.made /\ agentKind = "pydantic"
SeededTables == [t \in TableNames |-> [n |-> SeededRows(t), rev |-> 0]]

\* C1: a string whose trimmed, upper-cased text does not start with SELECT is
\* answered by an error result whose lower-cased content contains
\* "only select" or "not allowed" and whose details are the string itself.
C1_NonSelectRejected ==
    (ToolCalled /\ ~Accepted(call.sql)) =>
        /\ ~call.raised
        /\ call.result.type = "error"
        /\ \/ Contains(Lower(call.result.content), <<"o","n","l","y"," ","s","e","l","e","c","t">>)
           \/ Contains(Lower(call.result.content), <<"n","o","t"," ","a","l","l","o","w","e","d">>)
        /\ call.result.details = call.sql

C1_Witness ==
    /\ ToolCalled
    /\ StartsWith(Upper(Strip(call.sql)), <<"W","I","T","H">>)
    /\ call.sql # Strip(call.sql)
    /\ call.result.type = "error"

\* C2: a session is opened and a statement handed to the server exactly when
\* the guard accepts, the text handed over is the argument itself, and a
\* rejected string opens no session and sends nothing.
C2_SessionIffAccepted ==
    ToolCalled =>
        IF Accepted(call.sql)
        THEN /\ Count(call.events, "open") = 1
             /\ Count(call.events, "execute") = 1
             /\ call.sent = <<call.sql>>
        ELSE call.events = <<>> /\ call.sent = <<>> /\ ~call.committed

C2_Witness ==
    /\ ToolCalled
    /\ Accepted(call.sql)
    /\ call.sql # Strip(call.sql)
    /\ call.sql # Upper(call.sql)
    /\ call.sent = <<call.sql>>

\* C3: under the role that setup provisions no row of the four tables is
\* ever inserted, updated or deleted, whichever agent runs the string and
\* whether or not the string passed the guard: a string that carries a
\* write is refused by the server and nothing is committed.
C3_NoRowWritten ==
    /\ tables = SeededTables
    /\ (call.made /\ call.sent # <<>> /\ Writes(call.sql) # {}) =>
           call.kind = "raise" /\ ~call.committed

C3_Witness ==
    /\ ToolCalled
    /\ Accepted(call.sql)
    /\ <<"DELETE", "orders">> \in Writes(call.sql)
    /\ call.exc = "InsufficientPrivilege"
    /\ tables = SeededTables

\* C4: the guard looks at the prefix only: whatever follows a leading SELECT,
\* the string is not rejected by the guard and is handed to the server.
C4_PrefixOnly ==
    (ToolCalled /\ Accepted(call.sql)) =>
        /\ call.result.content # OnlySelectMsg
        /\ call.sent = <<call.sql>>

C4_Witness ==
    /\ ToolCalled
    /\ Accepted(call.sql)
    /\ Writes(call.sql) # {}
    /\ call.sent = <<call.sql>>
    /\ call.result.content # OnlySelectMsg

\* C5: the tool never raises: when the connection, the statement or the
\* commit fails, the result is an error whose content is "Query execution
\* failed: " followed by the exception text, with the query as details.
C5_NeverRaises ==
    ToolCalled =>
        /\ ~call.raised
        /\ (call.sent # <<>> /\ (call.kind = "raise" \/ call.commitFails)) =>
               call.result =
                   QueryResult("error",
                       FailedPrefix \o ExcText(IF call.kind = "raise" THEN call.exc
                                               ELSE "OperationalError"),
                       call.sql)

C5_Witness ==
    /\ ToolCalled
    /\ call.kind = "raise"
    /\ call.exc = "OperationalError"
    /\ StartsWith(call.result.content, FailedPrefix)
    /\ ~call.raised

\* C6: a call of execute_query opens one session, first, and closes it once,
\* last, on every path; it commits exactly when the body did not raise, and
\* when the body raises it rolls back and the caller sees the exception.
C6_SessionScoped ==
    (ToolCalled /\ call.sent # <<>>) =>
        /\ Count(call.events, "open") = 1
        /\ Head(call.events) = "open"
        /\ Count(call.events, "close") = 1
        /\ call.events[Len(call.events)] = "close"
        /\ Count(call.events, "commit") = (IF call.kind = "raise" THEN 0 ELSE 1)
        /\ call.kind = "raise" =>
               /\ Count(call.events, "rollback") = 1
               /\ call.result.type = "error"
               /\ call.result.content = FailedPrefix \o ExcText(call.exc)

C6_Witness ==
    /\ ToolCalled
    /\ call.kind = "raise"
    /\ call.events = <<"open", "execute", "rollback", "close">>

\* C7: nothing is retried: a tool call hands its statement to the server at
\* most once, the agent is invoked at most once for a line, and after a
\* failed question the loop is back at the prompt.
C7_NothingRetried ==
    /\ call.made => (Count(call.events, "execute") <= 1 /\ Len(call.sent) <= 1)
    /\ runs <= 1
    /\ outcome = "failed" => pc = "prompt"

C7_Witness ==
    /\ outcome = "failed"
    /\ pc = "prompt"
    /\ runs = 1

RowsDisplayed == ToolCalled /\ call.kind = "rows" /\ call.fetched >= 1 /\ ~call.commitFails

\* C8: of n >= 1 fetched rows the first min(n, 100) are displayed, in fetch
\* order; the line counting the n - 100 rows left out follows exactly when
\* n > 100.
C8_RowCap ==
    RowsDisplayed =>
        LET n == call.fetched
            shown == IF n <= RowLimit THEN n ELSE RowLimit
            rows == FetchAll(n, call.columns)
            lines == SplitLines(call.result.content)
        IN  /\ Len(lines) >= 2 + shown
            /\ \A i \in 1..shown :
                   /\ lines[2 + i] = FormatRow(rows[i])
                   /\ StartsWith(lines[2 + i], IntToStr(i))
            /\ IF n > RowLimit
               THEN /\ Len(lines) = shown + 4
                    /\ lines[shown + 3] = <<>>
                    /\ lines[shown + 4] =
                           <<".",".","."," ","(">> \o IntToStr(n - shown) \o <<" ","m","o","r","e"," ","r","o","w","s",")">>
               ELSE Len(lines) = shown + 2

C8_Witness ==
    /\ RowsDisplayed
    /\ call.fetched = RowLimit + 1
    /\ Len(SplitLines(call.result.content)) = RowLimit + 4

\* The text is a table: the header, the dashes, then the first row.
IsTable ==
    LET lines == SplitLines(call.result.content)
    IN  /\ Len(lines) >= 3
        /\ call.columns = <<<<"i","d">>>> =>
               lines[1] = <<"i","d">> /\ lines[2] = <<"-","-">>
        /\ call.columns = <<<<"i","d">>, <<"n","a","m","e">>>> =>
               lines[1] = <<"i","d"," ","|"," ","n","a","m","e">> /\ lines[2] = <<"-","-","-","-","-","-","-","-","-">>
        /\ call.columns \in ColumnSets
        /\ lines[3] = FormatRow(FetchAll(1, call.columns)[1])

\* C9 as stated: every accepted SELECT that executes successfully returns a
\* table with a header line and a separator line.
C9_Original ==
    (ToolCalled /\ Accepted(call.sql) /\ call.result.type = "query") => IsTable

\* C9, amended: an accepted SELECT that executes successfully and returns at
\* least one row yields a pipe-delimited table: the column names, a line of
\* dashes as long as the header, then the rows.
C9_TableWhenRows ==
    (RowsDisplayed /\ call.result.type = "query") => IsTable

C9_Witness ==
    /\ RowsDisplayed
    /\ call.result.type = "query"
    /\ call.columns = <<<<"i","d">>, <<"n","a","m","e">>>>
    /\ call.fetched = 2
    /\ SplitLines(call.result.content) =
           <<<<"i","d"," ","|"," ","n","a","m","e">>, <<"-","-","-","-","-","-","-","-","-">>, <<"1"," ","|"," ","x">>, <<"2"," ","|"," ","N","o","n","e">>>>

ReturnedTokens == Len(Encode(schema_for_prompt.text))
FullTokens == Len(Encode(full_schema))

\* C10 as stated: the returned schema text never has more than max_tokens
\* tokens.
C10_Original ==
    schema_for_prompt.called => ReturnedTokens <= schema_for_prompt.max_tokens

\* C10, amended: the returned text has more than max_tokens tokens only
\* when the full schema text has, and then it is the shorter form, which is
\* returned without being measured against the budget.
C10_WithinBudgetWhenFullFits ==
    (schema_for_prompt.called /\ ReturnedTokens > schema_for_prompt.max_tokens) =>
        /\ FullTokens > schema_for_prompt.max_tokens
        /\ \E s \in Schemas : schema_for_prompt.text = TruncatedSchema(s)

C10_Witness ==
    /\ schema_for_prompt.called
    /\ FullTokens > schema_for_prompt.max_tokens
    /\ schema_for_prompt.text = TruncatedSchema(dbSchema)
    /\ ReturnedTokens <= schema_for_prompt.max_tokens
    /\ ReturnedTokens > 0

\* C11: the preloaded full schema text is returned unchanged exactly when
\* its token count is at most max_tokens, a count equal to max_tokens
\* included, and the regenerated shorter form exactly when the count is
\* strictly greater.
C11_FullIffWithinBudget ==
    schema_for_prompt.called =>
        /\ schema_for_prompt.returned = "full_schema"
               <=> FullTokens <= schema_for_prompt.max_tokens
        /\ schema_for_prompt.returned = "schema_parts"
               <=> FullTokens > schema_for_prompt.max_tokens
        /\ schema_for_prompt.returned = "full_schema"
               => schema_for_prompt.text = full_schema
        /\ schema_for_prompt.returned = "schema_parts"
               => schema_for_prompt.text = TruncatedSchema(schema_for_prompt.inspected)

C11_Witness ==
    /\ schema_for_prompt.called
    /\ FullTokens = schema_for_prompt.max_tokens
    /\ FullTokens > 0
    /\ schema_for_prompt.text = full_schema
    /\ schema_for_prompt.text # TruncatedSchema(dbSchema)

\* What a line of either schema form states, nullability and default left
\* out: the table it opens, the column and its type, the columns of the
\* primary key, or the constrained columns, referred table and referred
\* columns of a foreign key.
NamesOf(pieces) == SelectSeq(pieces, LAMBDA x : x # ", ")
Arrow(line) == CHOOSE i \in 1..Len(line) : line[i] = " -> "
Stated(line) ==
    IF line = <<>> THEN [kind |-> "nothing"]
    ELSE CASE line[1] = "\nTable: " -> [kind |-> "table", name |-> line[2]]
           [] line[1] = "  - " ->
                  [kind |-> "column", name |-> line[2], type |-> line[4]]
           [] line[1] \in {"  PRIMARY KEY: ", "  PK: "} ->
                  [kind |-> "pk", columns |-> NamesOf(Tail(line))]
           [] line[1] \in {"  FOREIGN KEY: ", "  FK: "} ->
                  [kind |-> "fk",
                   constrained_columns |-> NamesOf(SubSeq(line, 2, Arrow(line) - 1)),
                   referred_table |-> line[Arrow(line) + 1],
                   referred_columns |->
                       NamesOf(SubSeq(line, Arrow(line) + 3, Len(line) - 1))]
           [] OTHER -> [kind |-> "other"]
StatedBy(text) ==
    LET lines == SplitLines(text) IN [i \in 1..Len(lines) |-> Stated(lines[i])]
WithoutReferredColumns(stated) ==
    [i \in 1..Len(stated) |->
        IF stated[i].kind = "fk" THEN [stated[i] EXCEPT !.referred_columns = <<>>]
        ELSE stated[i]]
\* the shorter form was generated from the tables the full form describes
ShortOfSameSchema ==
    /\ schema_for_prompt.called
    /\ schema_for_prompt.returned = "schema_parts"
    /\ full_schema = LoadFullSchema(schema_for_prompt.inspected)

\* C12 as stated: the shorter form names every table and column of the full
\* form and retains every primary key and every foreign key with its
\* constrained columns, referred table and referred columns.
C12_Original ==
    ShortOfSameSchema => StatedBy(schema_for_prompt.text) = StatedBy(full_schema)

\* C12, amended: the shorter form of a schema names every table and column
\* (with its type) of the full form, every primary key, and of every foreign
\* key the constrained columns and the referred table; the referred columns
\* are dropped along with nullability and defaults.
C12_KeysWithoutReferredColumns ==
    ShortOfSameSchema =>
        /\ StatedBy(schema_for_prompt.text)
               = WithoutReferredColumns(StatedBy(full_schema))
        /\ \A i \in 1..Len(StatedBy(full_schema)) :
               StatedBy(full_schema)[i].kind # "other"

C12_Witness ==
    /\ ShortOfSameSchema
    /\ schema_for_prompt.inspected = <<Customers, Orders, Pairs>>
    /\ schema_for_prompt.text # full_schema
    /\ StatedBy(schema_for_prompt.text)[10] =
           [kind |-> "fk", constrained_columns |-> <<"customer_id">>,
            referred_table |-> "customers", referred_columns |-> <<>>]
    /\ StatedBy(full_schema)[10].referred_columns = <<"customer_id">>
    /\ StatedBy(full_schema)[14] = [kind |-> "pk", columns |-> <<"a", "b">>]

\* C13: the text get_schema_for_prompt returns always describes the schema
\* as it was when the full schema was loaded at construction: it is the full
\* text or the shorter form of those same tables, so that the truncation
\* decision and the truncated content come from one snapshot.
C13_DescribesLoadedSchema ==
    schema_for_prompt.called =>
        \E s \in Schemas :
            /\ full_schema = LoadFullSchema(s)
            /\ schema_for_prompt.text \in {full_schema, TruncatedSchema(s)}

SaysQuit(text) == Lower(text) \in {<<"q","u","i","t">>, <<"e","x","i","t">>, <<"q">>}
\* a step of the loop that read a line, and one that ended the loop
LineRead == pc = "prompt" /\ outcome' = "none"
LoopEnds == pc # "done" /\ pc' = "done"

\* C17: in both agent scripts the loop ends, the agent not invoked, at the
\* line whose trimmed, lower-cased text is "quit", "exit" or "q"; no other
\* input ends it, only an interrupt does.
C17_QuitEndsLoop ==
    [][/\ LineRead => (pc' = "done" <=> SaysQuit(question'))
       /\ (LineRead /\ SaysQuit(question')) => (runs' = 0 /\ ~call'.made)
       /\ LoopEnds => \/ LineRead /\ SaysQuit(question')
                      \/ outcome' = "interrupted"]_vars

C17_Witness ==
    /\ pc = "done"
    /\ question = <<"Q","u","i","t">>
    /\ outcome = "none"
    /\ runs = 0
    /\ ~call.made

SetupDone == run.script = "setup" /\ run.pc = "done"
SetupSucceeded == SetupDone /\ run.status = 0
Among(fn, fns) == \E i \in 1..Len(fns) : fns[i] = fn
FourSteps == {"create_database", "create_tables", "populate_data", "create_readonly_user"}

\* C14: a run of setup_database.main that starts where a successful run
\* left the server creates no database, table or role and inserts no row:
\* at every step, and when it ends, the server is as the run found it.
C14_SetupIdempotent ==
    (run.script = "setup" /\ run.from # "no") =>
        /\ server = run.before
        /\ \A t \in TableNames : server.rows[t] >= MinRows(t)
        /\ (SetupDone /\ run.faults = <<>>) => run.status = 0

C14_Witness ==
    /\ SetupSucceeded
    /\ run.from = "other"
    /\ Among("populate_data", run.calls)
    /\ server = run.before
    /\ server.rows["customers"] = 2 * MIN_CUSTOMERS - 1
    /\ server.rows["order_items"] = 149 + 204

TeardownConfirmed ==
    /\ run.script = "remove" /\ run.pc = "done"
    /\ Lower(Strip(run.answer)) = <<"y","e","s">>

\* C15: a confirmed run of remove_database.main that meets no fault of the
\* server completes without error; it changes nothing when the database and
\* the role are already absent, and leaves both absent when they exist.
C15_TeardownIdempotent ==
    (TeardownConfirmed /\ run.faults = <<>>) =>
        /\ ~run.uncaught /\ run.met = <<>> /\ run.status = 0
        /\ ~server.db /\ ~server.role
        /\ (~run.before.db /\ ~run.before.role) => server = run.before

C15_Witness ==
    /\ TeardownConfirmed
    /\ run.faults = <<>>
    /\ ~run.before.db /\ ~run.before.role
    /\ server = run.before
    /\ Among("drop_user", run.calls)

\* C16: the read-only role never holds a privilege other than CONNECT on
\* the ecommerce database, USAGE on schema public and SELECT on tables,
\* whatever setup and teardown runs came before; after a successful setup
\* it holds SELECT on all four tables.
C16_SelectOnly ==
    /\ \A g \in server.grants :
          \/ g \in {<<"CONNECT", "ecommerce">>, <<"USAGE", "public">>}
          \/ g[1] = "SELECT" /\ g[2] \in TableNames
    /\ ~server.role => server.grants = {}
    /\ SetupSucceeded =>
          /\ server.role
          /\ \A t \in TableNames : <<"SELECT", t>> \in server.grants

C16_Witness ==
    /\ SetupSucceeded
    /\ run.before.role /\ ~run.before.db
    /\ Cardinality(server.grants) = 6

\* C18: setup_database.main returns 1 exactly when a step raised and 0 only
\* when the four steps completed; the step that raised is the last one run.
C18_ExitStatus ==
    /\ (run.script = "setup" /\ run.pc # "done") => run.raised = <<>>
    /\ SetupDone =>
          /\ run.status \in {0, 1}
          /\ run.status = 1 <=> run.raised # <<>>
          /\ run.status = 0 =>
                 \A fn \in FourSteps : Among(fn, run.calls) /\ ~Among(fn, run.met)
          /\ run.raised # <<>> =>
                 run.calls[Len(run.calls)] = run.raised[Len(run.raised)]

C18_Witness ==
    /\ SetupDone
    /\ run.status = 1
    /\ run.raised = <<"populate_data">>
    /\ Among("create_tables", run.calls)
    /\ ~Among("create_readonly_user", run.calls)

\* C19 as stated: every step function that meets a failure prints it and
\* raises it again, so that the run ends there.
C19_Original ==
    \A i \in 1..Len(run.met) :
        /\ Among(run.met[i], run.printed)
        /\ Among(run.met[i], run.raised)
        /\ run.pc = "done"

\* C19, amended: every step function that meets a failure prints it; each
\* raises it again and so ends the run, except get_row_count, which returns
\* 0 to populate_data, and terminate_connections, which returns so that the
\* teardown goes on to drop the database.
C19_ReraisedButTwo ==
    \A i \in 1..Len(run.met) :
        LET fn == run.met[i]
        IN  /\ Among(fn, run.printed)
            /\ fn \notin {"get_row_count", "terminate_connections"} =>
                   /\ Among(fn, run.raised)
                   /\ run.pc = "done"
                   /\ run.status = 1
                   /\ run.script = "remove" <=> run.uncaught
            /\ fn = "get_row_count" =>
                   ~Among(fn, run.raised) /\ Among("populate_data", run.calls)
            /\ fn = "terminate_connections" =>
                   /\ ~Among(fn, run.raised)
                   /\ run.pc = "drop_database" \/ Among("drop_database", run.calls)

C19_Witness ==
    /\ run.script = "remove"
    /\ run.met = <<"terminate_connections", "drop_database">>
    /\ run.raised = <<"drop_database">>
    /\ run.faults = <<"terminate_connections">>
    /\ run.uncaught
    /\ server.db

\* C20: on a server that a successful setup brought from fresh, a confirmed
\* teardown that succeeds leaves no database, table, row or role: the server
\* is fresh again.
C20_SetupThenTeardown ==
    (TeardownConfirmed /\ ~run.uncaught /\ run.from = "fresh") =>
        /\ server = Fresh
        /\ run.before.db /\ run.before.role
        /\ run.before.tables = TableNames

C20_Witness ==
    /\ TeardownConfirmed
    /\ ~run.uncaught
    /\ run.from = "fresh"
    /\ run.before.rows["order_items"] = 204
    /\ run.before.sessions = 1
    /\ run.before.grants # {}
    /\ server = Fresh

\* C21: an accepted SELECT whose row set is empty is answered by a result of
\* type "query" with the content "Query executed successfully. No rows
\* returned." and the submitted string as details.
C21_NoRowsIsQuery ==
    (ToolCalled /\ Accepted(call.sql) /\ call.kind = "rows" /\ call.fetched = 0
        /\ ~call.commitFails) =>
        /\ ~call.raised
        /\ call.result.type = "query"
        /\ call.result.content = <<"Q","u","e","r","y"," ","e","x","e","c","u","t","e","d"," ","s","u","c","c","e","s","s","f","u","l","l","y","."," ","N","o"," ","r","o","w","s"," ","r","e","t","u","r","n","e","d",".">>
        /\ call.result.details = call.sql

C21_Witness ==
    /\ ToolCalled
    /\ call.sql = <<" ","s","e","l","e","c","t"," ","*"," ","f","r","o","m"," ","o","r","d","e","r","s">>
    /\ call.kind = "rows" /\ call.fetched = 0 /\ ~call.commitFails
    /\ call.result.type = "query"
    /\ call.events = <<"open", "execute", "fetchall", "commit", "close">>

\* C22: every result of execute_sql_query has type "query" or "error" and
\* the submitted string as details; it has type "query" only if the guard
\* accepted the string and neither the statement nor the commit raised, so
\* its details, upper-cased, contain "SELECT".
C22_ResultShape ==
    ToolCalled =>
        /\ ~call.raised
        /\ call.result.type \in {"query", "error"}
        /\ call.result.details = call.sql
        /\ call.result.type = "query" =>
               /\ Accepted(call.sql)
               /\ call.kind \in {"rows", "norows"}
               /\ ~call.commitFails
               /\ Contains(Upper(call.result.details), <<"S","E","L","E","C","T">>)

C22_Witness ==
    /\ ToolCalled
    /\ call.sql = <<"s","e","l","e","c","t"," ","1",";"," ","u","p","d","a","t","e"," ","p","r","o","d","u","c","t","s"," ","s","e","t"," ","p","r","i","c","e"," ","="," ","0">>
    /\ call.exc = "InsufficientPrivilege"
    /\ call.result.type = "error"
    /\ call.result.details = call.sql

SaysYes(answer) == Lower(Strip(answer)) = <<"y","e","s">>

\* C23: remove_database.main connects and drops only when the answer,
\* trimmed and lower-cased, is exactly "yes"; after any other answer it has
\* returned without connecting, the database and the role as they were.
C23_OnlyYesRemoves ==
    run.script = "remove" =>
        /\ (Among("connect_to_postgres", run.calls) \/ run.open # {}
                \/ server # run.before \/ run.pc # "done") => SaysYes(run.answer)
        /\ ~SaysYes(run.answer) =>
               /\ run.pc = "done" /\ run.status = 0 /\ ~run.uncaught
               /\ run.calls = <<"confirm_removal">>
               /\ run.open = {}
               /\ server = run.before
        /\ SaysYes(run.answer) =>
               run.pc = "connect_to_postgres" \/ Among("connect_to_postgres", run.calls)

C23_Witness ==
    /\ run.script = "remove"
    /\ run.answer = <<"y">>
    /\ run.pc = "done"
    /\ run.before.db /\ run.before.role
    /\ server = run.before

PopulateFailed == run.script = "setup" /\ Among("populate_data", run.met)
PopulateSucceeded ==
    /\ run.script = "setup"
    /\ Among("populate_data", run.calls) /\ ~Among("populate_data", run.met)
Threshold(t) ==
    CASE t = "customers" -> 50 [] t = "products" -> 30
      [] t = "orders" -> 100 [] t = "order_items" -> 150

\* C24: populate_data is all-or-nothing: when an insert or the commit
\* raises, no row the run inserted into any table persists; when it
\* succeeds, the rows of every table it seeded are there together.
C24_AllOrNothing ==
    /\ PopulateFailed =>
          /\ server.rows = run.before.rows
          /\ server.emails = run.before.emails
          /\ run.pc = "done" /\ run.status = 1
    /\ PopulateSucceeded =>
          \A t \in TableNames :
              server.rows[t] = run.before.rows[t]
                  + (IF t \in run.inserted THEN Inserted(run.before, t) ELSE 0)

C24_Witness ==
    /\ PopulateFailed
    /\ run.inserted = {"customers", "products"}
    /\ run.before.rows["orders"] = 99
    /\ run.faults = <<"populate_data">>
    /\ server.rows = run.before.rows

\* C25: populate_data inserts into a table only if its row count at the
\* start of the run is below its threshold (50, 30, 100, 150), each table
\* decided by itself; after a successful run every table holds at least its
\* threshold, and a table that was at or above it is unchanged.
C25_Thresholds ==
    /\ run.script = "setup" =>
          \A t \in run.inserted : run.before.rows[t] < Threshold(t)
    /\ PopulateSucceeded =>
          \A t \in TableNames :
              /\ t \in run.inserted <=> run.before.rows[t] < Threshold(t)
              /\ server.rows[t] >= Threshold(t)
              /\ run.before.rows[t] >= Threshold(t) =>
                     server.rows[t] = run.before.rows[t]

C25_Witness ==
    /\ PopulateSucceeded
    /\ run.inserted = {"products"}
    /\ run.before.rows["products"] = 29
    /\ server.rows["products"] = 59
    /\ server.rows["order_items"] = 150

IsStep(fn) == fn \in FourSteps
StepsCalled == SelectSeq(run.calls, IsStep)
StepOrder == <<"create_database", "create_tables", "populate_data", "create_readonly_user">>

\* C26: setup calls create_database, create_tables, populate_data and
\* create_readonly_user in this order, each only after the one before it
\* met no failure; GRANT SELECT is issued only when the four tables exist,
\* and a successful run issues the grants whether or not the role existed.
C26_StepsInOrder ==
    run.script = "setup" =>
        /\ Len(StepsCalled) <= Len(StepOrder)
        /\ StepsCalled = SubSeq(StepOrder, 1, Len(StepsCalled))
        /\ \A i \in 1..(Len(StepsCalled) - 1) : ~Among(StepsCalled[i], run.met)
        /\ run.pc \in FourSteps \ {"create_database"} =>
               /\ run.met = <<>>
               /\ run.pc \in {"create_tables", StepOrder[Len(StepsCalled) + 1]}
        /\ Among("GRANT SELECT", run.issued) =>
               /\ server.tables = TableNames
               /\ Among("create_tables", run.calls)
               /\ ~Among("create_tables", run.met)
        /\ SetupSucceeded =>
               /\ StepsCalled = StepOrder
               /\ \A g \in {"GRANT CONNECT", "GRANT USAGE", "GRANT SELECT"} :
                      Among(g, run.issued)
               /\ Among("CREATE USER", run.issued) <=> ~run.before.role

C26_Witness ==
    /\ SetupSucceeded
    /\ run.before.role /\ run.before.tables = {}
    /\ Among("GRANT SELECT", run.issued)
    /\ ~Among("CREATE USER", run.issued)

RemovalOrder ==
    <<"confirm_removal", "connect_to_postgres", "terminate_connections",
      "drop_database", "drop_user">>

\* C27: a confirmed teardown calls terminate_connections, drop_database and
\* drop_user in this order; drop_database is attempted after
\* terminate_connections was, also when the termination failed, and
\* drop_user is called only if drop_database did not raise.
C27_TeardownOrder ==
    run.script = "remove" =>
        /\ Len(run.calls) <= Len(RemovalOrder)
        /\ run.calls = SubSeq(RemovalOrder, 1, Len(run.calls))
        /\ Among("terminate_connections", run.met) =>
               /\ ~Among("terminate_connections", run.raised)
               /\ run.pc = "drop_database" \/ Among("drop_database", run.calls)
        /\ Among("drop_database", run.raised) =>
               /\ ~Among("drop_user", run.calls)
               /\ run.pc = "done" /\ run.uncaught
               /\ server.role = run.before.role
        /\ (run.pc = "drop_user" \/ Among("drop_user", run.calls)) =>
               /\ Among("drop_database", run.calls)
               /\ ~Among("drop_database", run.met)

C27_Witness ==
    /\ run.script = "remove" /\ run.pc = "done"
    /\ run.met = <<"terminate_connections">>
    /\ run.before.db /\ run.before.sessions = 0
    /\ run.calls = RemovalOrder
    /\ ~server.db /\ ~server.role

\* C28: in the loop of either agent a line that is empty once trimmed is
\* skipped, the agent not invoked; a line that is neither empty nor a quit
\* word invokes the agent once, and nothing else invokes it; a failed
\* question leaves the loop at the prompt; an interrupt ends the loop.
C28_LoopSteps ==
    [][/\ (LineRead /\ question' = <<>>) =>
              (pc' = "prompt" /\ runs' = 0 /\ ~call'.made)
       /\ (LineRead /\ question' # <<>> /\ ~SaysQuit(question')) =>
              (pc' = "running" /\ runs' = 1)
       /\ runs' > runs => LineRead
       /\ runs' <= 1
       /\ (pc # "running" /\ pc' = "running") => (LineRead /\ runs' = 1)
       /\ outcome' = "failed" => pc' = "prompt"
       /\ outcome' = "interrupted" => pc' = "done"
       /\ pc = "done" => pc' = "done"]_vars

C28_Witness ==
    /\ pc = "done"
    /\ outcome = "interrupted"
    /\ question = <<"H","o","w"," ","m","a","n","y","?">>
    /\ runs = 1

StartUpFailed == pc = "startup" /\ outcome' = "no database"
InLoop(at) == at \in {"prompt", "running", "done"}

\* C29: when connecting to the database or loading the schema fails at
\* start-up, the script exits with status 1: the loop is never entered, no
\* line is read and the agent is never invoked; the loop is entered only
\* with the database handle made and the schema loaded.
C29_NoLoopWithoutDatabase ==
    [][/\ StartUpFailed => pc' = "exit(1)"
       /\ pc = "exit(1)" => UNCHANGED vars
       /\ pc' = "exit(1)" => (runs' = 0 /\ question' = <<>> /\ ~call'.made)
       /\ InLoop(pc') =>
              /\ full_schema' # <<>>
              /\ schema_for_prompt'.called
              /\ outcome' # "no database"
       /\ pc = "startup" => (runs = 0 /\ ~call.made /\ full_schema = <<>>)]_vars

C29_Witness ==
    /\ pc = "exit(1)"
    /\ outcome = "no database"
    /\ agentKind = "pydantic"
    /\ full_schema = <<>>
    /\ ~schema_for_prompt.called
    /\ runs = 0

\* C30: when main of setup_database or remove_database has returned, or
\* has raised, every connection the run opened is closed.
C30_AllClosed ==
    (run.script \in {"setup", "remove"} /\ run.pc = "done") =>
        (run.open = {} /\ run.left = {})

====
